---- MODULE Spec2Model ----
(***************************************************************************)
(* Model of epuber.parser.Parser (src/epuber/parser.py): one Parser is     *)
(* constructed with an optional partial configuration and parse() is run   *)
(* on one file (Spec).  Further specifications run single methods of the   *)
(* Parser on their own, several calls and several Parsers, and             *)
(* EpubGenerator.generate_epub (src/epuber/generator.py) around parse.     *)
(*                                                                         *)
(* Text is modelled at the level of tokens.  A line is a sequence of       *)
(* tokens, each token standing for a short piece of text:                  *)
(*   "sp"  a blank " "            "nl"  the line feed used by "\n".join    *)
(*   "tab" a tabulator            "isp" the ideographic space U+3000       *)
(*   "L24" twenty-four characters of ordinary text                         *)
(*   "x"   ordinary body text     "Vol" a volume heading such as "第一卷"  *)
(*   "Ch"  a chapter heading such as "第1章"                               *)
(*   "Ps"  the word "后记"        "Ex"  the word "声明"                    *)
(*   "["   the bracket "【"       "]"   the bracket "】"                   *)
(*   "("   the parenthesis "("    ")"   the parenthesis ")"                *)
(*   "A"   a capital letter       "a"   the same letter in lower case      *)
(* A match pattern [anch, tok] stands for the regular expression "^tok"    *)
(* (anch) or "tok" (not anch) used with re.search.  A cleaning pattern     *)
(* used with re.sub is a span "open.*?close", a span with blanks around it *)
(* "\s*open.*?close\s*" (ws), a literal text (lit), or a pattern re      *)
(* cannot compile (invalid).                                               *)
(*                                                                         *)
(* Optional values (None in the source) are sequences of length 0 or 1.    *)
(* The field src of a segment and of a Chapter is instrumentation: the     *)
(* index in the input of the title line that opened the segment.           *)
(***************************************************************************)
EXTENDS Integers, Sequences, FiniteSets, TLC

VARIABLES config, pc, lines, chapters, current_title, current_content,
          title_line, volumes, current_volume, next_seg, result, error,
          supplied, input, prev, arg, ret, tried, heap, parsers, gen

vars == <<config, pc, lines, chapters, current_title, current_content,
          title_line, volumes, current_volume, next_seg, result, error,
          supplied, input, prev, arg, ret, tried, heap, parsers, gen>>

\* what a call of parse leaves alone: the argument of Parser(config), the
\* file, the outcome of the call before, the argument and the value of a
\* function called on its own, the encodings _read_file_content tried, the
\* Parsers constructed so far with the dict each one has as self.config,
\* and the progress of generate_epub
aux == <<supplied, input, prev, arg, ret, tried, heap, parsers, gen>>

\* ---------------------------------------------------------------- bounds
MaxLines == 4

\* ------------------------------------------------------------- constants
MaxTitleLen == 30
MaxExcludeLen == 50

None == <<>>
Some(v) == <<v>>

\* ------------------------------------------------------------------ text
\* what str.strip() strips and "\s" matches
Whitespace == {"sp", "tab", "nl", "isp"}

\* str.lower() on one token
Lower(tok) == IF tok = "A" THEN "a" ELSE tok

\* number of characters a token stands for
Width(tok) ==
    CASE tok = "Vol" -> 3
      [] tok = "Ch" -> 3
      [] tok = "Ps" -> 2
      [] tok = "Ex" -> 2
      [] tok = "L24" -> 24
      [] OTHER -> 1

RECURSIVE StrLen(_)
StrLen(s) == IF s = <<>> THEN 0 ELSE Width(Head(s)) + StrLen(Tail(s))

Range(s) == {s[i] : i \in 1..Len(s)}

RECURSIVE LStrip(_)
LStrip(s) ==
    IF s = <<>> THEN <<>>
    ELSE IF Head(s) \in Whitespace THEN LStrip(Tail(s)) ELSE s

RECURSIVE RStrip(_)
RStrip(s) ==
    IF s = <<>> THEN <<>>
    ELSE IF s[Len(s)] \in Whitespace THEN RStrip(SubSeq(s, 1, Len(s) - 1)) ELSE s

\* str.strip()
Strip(s) == RStrip(LStrip(s))

\* "\n".join(ls)
RECURSIVE JoinLines(_)
JoinLines(ls) ==
    IF ls = <<>> THEN <<>>
    ELSE IF Len(ls) = 1 THEN ls[1]
    ELSE ls[1] \o <<"nl">> \o JoinLines(Tail(ls))

\* line.startswith((" ", "\t", "\n", "\r", "\v", "\f"))
StartsWithWhitespace(line) == line # <<>> /\ Head(line) \in {"sp", "tab", "nl"}

\* re.search(pattern, line)
Search(pattern, line) ==
    IF pattern.anch THEN line # <<>> /\ Head(line) = pattern.tok
    ELSE pattern.tok \in Range(line)

\* re.search(pattern, line, re.IGNORECASE)
SearchIgnoreCase(pattern, line) ==
    IF pattern.anch THEN line # <<>> /\ Lower(Head(line)) = Lower(pattern.tok)
    ELSE Lower(pattern.tok) \in {Lower(t) : t \in Range(line)}

\* re.sub(pattern, "", s): the matches are removed from left to right and
\* the scan resumes after each match.  A literal pattern matches its text.
\* A span pattern matches the open token and everything up to the nearest
\* later close token, "." not matching a line feed; with ws it also takes
\* the white space in front of the open token and behind the close token.
RECURSIVE Sub(_, _)
Sub(pattern, s) ==
    IF s = <<>> THEN <<>>
    ELSE IF pattern.kind = "lit"
    THEN IF Len(s) >= Len(pattern.toks)
            /\ SubSeq(s, 1, Len(pattern.toks)) = pattern.toks
         THEN Sub(pattern, SubSeq(s, Len(pattern.toks) + 1, Len(s)))
         ELSE <<Head(s)>> \o Sub(pattern, Tail(s))
    ELSE LET o == IF pattern.ws THEN Len(s) - Len(LStrip(s)) + 1 ELSE 1
             closes == {j \in (o + 1)..Len(s) :
                          /\ s[j] = pattern.close
                          /\ \A m \in (o + 1)..(j - 1) : s[m] # "nl"}
         IN IF o <= Len(s) /\ s[o] = pattern.open /\ closes # {}
            THEN LET j == CHOOSE k \in closes : \A m \in closes : k <= m
                     rest == SubSeq(s, j + 1, Len(s))
                 IN Sub(pattern, IF pattern.ws THEN LStrip(rest) ELSE rest)
            ELSE <<Head(s)>> \o Sub(pattern, Tail(s))

\* ---------------------------------------------------------- configuration
P(anch, tok) == [anch |-> anch, tok |-> tok]
Span(open, close) == [kind |-> "span", open |-> open, close |-> close, ws |-> FALSE]
SpanWs(open, close) == [kind |-> "span", open |-> open, close |-> close, ws |-> TRUE]
Lit(toks) == [kind |-> "lit", toks |-> toks]
Invalid == [kind |-> "invalid", open |-> "", close |-> "", ws |-> FALSE]

get_default_config ==
    [ volume_patterns      |-> << P(TRUE, "Vol") >>,
      chapter_patterns     |-> << P(TRUE, "Ch"), P(TRUE, "Ps") >>,
      title_clean_patterns |-> << Span("[", "]"), SpanWs("(", ")") >>,
      content_keywords     |-> << [type |-> "extra", keywords |-> <<"Xt">>],
                                  [type |-> "postscript", keywords |-> <<"Ps">>],
                                  [type |-> "notice", keywords |-> <<"Ex">>] >>,
      exclude_patterns     |-> << P(TRUE, "Ex") >>,
      single_word_types    |-> << [word |-> "Ps", type |-> "postscript"],
                                  [word |-> "Xt", type |-> "extra"] >> ]

\* variant: the supplied lists are appended to the default lists
Update_Deep(defaults, given) ==
    [k \in DOMAIN defaults \cup DOMAIN given |->
        IF k \in DOMAIN given
        THEN IF k \in DOMAIN defaults THEN defaults[k] \o given[k] ELSE given[k]
        ELSE defaults[k]]

\* dict.update: the keys supplied replace the defaults whole
Update(defaults, given) ==
    [k \in DOMAIN defaults \cup DOMAIN given |->
        IF k \in DOMAIN given THEN given[k] ELSE defaults[k]]

\* the partial configurations a caller passes to Parser(config)
Configs ==
    { <<>>,
      [chapter_patterns |-> << P(TRUE, "Ch"), P(TRUE, "Ps"), P(TRUE, "[") >>],
      [exclude_patterns |-> << P(FALSE, "Ex") >>, encoding |-> <<"utf-8">>],
      [volume_patterns |-> << P(FALSE, "Vol") >>,
       content_keywords |-> << [type |-> "foo", keywords |-> <<"Ch">>] >>],
      [title_clean_patterns |-> << Span("[", "]"), Invalid >>] }

\* the lines a file is made of
Lines ==
    { <<>>,
      <<"x">>,
      <<"sp", "Ch">>,
      <<"Vol">>,
      <<"Ch">>,
      <<"Ps">>,
      <<"Ch", "Ex">>,
      <<"[", "]">>,
      <<"[", "x", "]", "Vol">>,
      <<"Ch", "[", "Vol", "]">> }

\* ------------------------------------------------------------ predicates
\* variant: a line of exactly the limit is refused too
is_volume_title_AtLimit(cfg, line) ==
    IF StrLen(Strip(line)) >= MaxTitleLen THEN FALSE
    ELSE IF StartsWithWhitespace(line) THEN FALSE
    ELSE \E i \in 1..Len(cfg.volume_patterns) : Search(cfg.volume_patterns[i], line)

is_volume_title(cfg, line) ==
    IF StrLen(Strip(line)) > MaxTitleLen THEN FALSE
    ELSE IF StartsWithWhitespace(line) THEN FALSE
    ELSE \E i \in 1..Len(cfg.volume_patterns) : Search(cfg.volume_patterns[i], line)

is_exclude_line(cfg, line) ==
    IF StrLen(Strip(line)) > MaxExcludeLen THEN FALSE
    ELSE IF StartsWithWhitespace(line) THEN FALSE
    ELSE \E i \in 1..Len(cfg.exclude_patterns) :
             SearchIgnoreCase(cfg.exclude_patterns[i], line)

is_chapter_title(cfg, line) ==
    IF StrLen(Strip(line)) > MaxTitleLen THEN FALSE
    ELSE IF StartsWithWhitespace(line) THEN FALSE
    ELSE \E i \in 1..Len(cfg.chapter_patterns) : Search(cfg.chapter_patterns[i], line)

\* variant: the exclusion test is left out of the condition
IsTitleLine_NoExclude(cfg, line) ==
    is_volume_title(cfg, line) \/ is_chapter_title(cfg, line)

\* the condition of the if in the loop of _split_chapters
IsTitleLine(cfg, line) ==
    ~is_exclude_line(cfg, line)
    /\ (is_volume_title(cfg, line) \/ is_chapter_title(cfg, line))

\* re.sub raises re.error on a pattern it cannot compile
CleanRaises(cfg) ==
    \E i \in 1..Len(cfg.title_clean_patterns) :
        cfg.title_clean_patterns[i].kind = "invalid"

RECURSIVE SubAll(_, _)
SubAll(patterns, s) ==
    IF patterns = <<>> THEN s
    ELSE SubAll(Tail(patterns), Sub(Head(patterns), s))

\* variant: the result is not stripped
clean_title_NoFinalStrip(cfg, title) == SubAll(cfg.title_clean_patterns, Strip(title))

clean_title(cfg, title) == Strip(SubAll(cfg.title_clean_patterns, Strip(title)))

\* variant: the keywords are compared as written
RECURSIVE FirstKeyword_CaseSensitive(_, _)
FirstKeyword_CaseSensitive(cats, title) ==
    IF cats = <<>> THEN None
    ELSE IF \E i \in 1..Len(Head(cats).keywords) :
                Head(cats).keywords[i] \in Range(title)
         THEN Some(Head(cats).type)
         ELSE FirstKeyword_CaseSensitive(Tail(cats), title)

RECURSIVE FirstKeyword(_, _)
FirstKeyword(cats, title) ==
    IF cats = <<>> THEN None
    ELSE IF \E i \in 1..Len(Head(cats).keywords) :
                Lower(Head(cats).keywords[i]) \in {Lower(t) : t \in Range(title)}
         THEN Some(Head(cats).type)
         ELSE FirstKeyword(Tail(cats), title)

RECURSIVE FirstWord(_, _)
FirstWord(words, title) ==
    IF words = <<>> THEN None
    ELSE IF Head(words).word \in Range(title) THEN Some(Head(words).type)
         ELSE FirstWord(Tail(words), title)

detect_content_type(cfg, title) ==
    IF FirstKeyword(cfg.content_keywords, title) # None
    THEN FirstKeyword(cfg.content_keywords, title)[1]
    ELSE IF FirstWord(cfg.single_word_types, title) # None
         THEN FirstWord(cfg.single_word_types, title)[1]
         ELSE "chapter"

create_chapter_data(cfg, title, content, src) ==
    [ title     |-> title,
      content   |-> content,
      type      |-> detect_content_type(cfg, title),
      is_volume |-> is_volume_title(cfg, title),
      src       |-> src ]

\* variant: the body is neither stripped nor tested for emptiness
Finalize_NoStrip(cfg, chs, title, content, src) ==
    IF title # None
    THEN Append(chs, create_chapter_data(cfg, title[1], JoinLines(content), src))
    ELSE chs

\* "save the previous chapter": the pending segment is appended when a
\* title is pending and its joined, stripped body is not empty
Finalize(cfg, chs, title, content, src) ==
    IF title # None /\ Strip(JoinLines(content)) # <<>>
    THEN Append(chs, create_chapter_data(cfg, title[1], Strip(JoinLines(content)), src))
    ELSE chs

\* variant: only the first segment is looked at
has_volumes_first(chs) == chs # <<>> /\ chs[1].is_volume

\* variant: the nested assembly is always chosen
has_volumes_always(chs) == TRUE

has_volumes(chs) == \E i \in 1..Len(chs) : chs[i].is_volume

Chapter(title, content, content_type, src) ==
    [title |-> title, content |-> content, content_type |-> content_type, src |-> src]

Volume(title, chs) == [title |-> title, chapters |-> chs]

\* variant: one titled Volume per segment
create_flat_structure_first(chs) ==
    [i \in 1..Len(chs) |->
        Volume(Some(chs[i].title),
               << Chapter(chs[i].title, chs[i].content, chs[i].type, chs[i].src) >>)]

\* the definition of _create_flat_structure in force (the later one)
create_flat_structure(chs) ==
    << Volume(None,
         [i \in 1..Len(chs) |->
             Chapter(chs[i].title, chs[i].content, chs[i].type, chs[i].src)]) >>

\* exceptions: the class, the message and __cause__
Exc(type, msg, cause) == [type |-> type, msg |-> msg, cause |-> cause]

\* variant: nothing is wrapped
parse_except_nowrap(e) == e

\* the except clauses of parse: a FileParseError is re-raised as it is, any
\* other exception is replaced by a FileParseError raised from it
parse_except(e) ==
    IF e.type = "FileParseError" THEN e
    ELSE Exc("FileParseError", "parse_failed", Some(e.type))

\* ------------------------------------------------------------------ Init
\* Parser(config)
Construct ==
    /\ supplied \in Configs
    /\ config = Update(get_default_config, supplied)

\* the locals of a call of parse before its first statement
Entry ==
    /\ lines = <<>>
    /\ chapters = <<>>
    /\ current_title = None
    /\ current_content = <<>>
    /\ title_line = 0
    /\ volumes = <<>>
    /\ current_volume = 0
    /\ next_seg = 1
    /\ result = None
    /\ error = None

\* a Parser is constructed and parse is called on some file
Init ==
    /\ Construct
    /\ pc = "read"
    /\ Entry
    /\ input = None
    /\ prev = None
    /\ tried = <<>>
    /\ gen = None
    /\ heap = <<>>
    /\ parsers = <<>>
    /\ arg = None
    /\ ret = None

\* the lines the loop can meet next: any line while the file is left open,
\* the next line of the file once the file is fixed
NextLines ==
    IF input = None
    THEN IF Len(lines) < MaxLines THEN Lines ELSE {}
    ELSE IF Len(lines) < Len(input[1].lines)
         THEN {input[1].lines[Len(lines) + 1]} ELSE {}

\* the loop has met every line (content.split gives one line at least)
AtEnd ==
    IF input = None THEN Len(lines) >= 1 ELSE Len(lines) = Len(input[1].lines)

\* --------------------------------------------------------------- actions
\* _read_file_content returns the text
ReadOk ==
    /\ pc = "read"
    /\ IF input = None THEN TRUE ELSE input[1].exists
    /\ pc' = "split"
    /\ UNCHANGED <<config, lines, chapters, current_title, current_content,
                   title_line, volumes, current_volume, next_seg, result, error>>
    /\ UNCHANGED aux

\* open() raises (a missing file); parse wraps it
ReadFail ==
    /\ pc = "read"
    /\ IF input = None THEN TRUE ELSE ~input[1].exists
    /\ pc' = "failed"
    /\ error' = Some(parse_except(Exc("FileNotFoundError", "no_such_file", None)))
    /\ UNCHANGED <<config, lines, chapters, current_title, current_content,
                   title_line, volumes, current_volume, next_seg, result>>
    /\ UNCHANGED aux

\* one iteration of the loop: a body line (excluded, or not a title)
SplitBodyLine ==
    /\ pc = "split"
    /\ \E line \in NextLines :
        /\ ~IsTitleLine(config, line)
        /\ lines' = Append(lines, line)
        /\ current_content' = Append(current_content, line)
    /\ UNCHANGED <<config, pc, chapters, current_title, title_line, volumes,
                   current_volume, next_seg, result, error>>
    /\ UNCHANGED aux

\* variant: the buffer is emptied only when a title was pending
SplitTitleLine_KeepPreface ==
    /\ pc = "split"
    /\ ~CleanRaises(config)
    /\ \E line \in NextLines :
        /\ IsTitleLine(config, line)
        /\ clean_title(config, Strip(line)) # <<>>
        /\ lines' = Append(lines, line)
        /\ chapters' = Finalize(config, chapters, current_title, current_content, title_line)
        /\ current_title' = Some(clean_title(config, Strip(line)))
        /\ title_line' = Len(lines) + 1
        /\ current_content' = IF current_title # None THEN <<>> ELSE current_content
    /\ UNCHANGED <<config, pc, volumes, current_volume, next_seg, result, error>>
    /\ UNCHANGED aux

\* variant: a pending title is emitted with an empty body too
SplitTitleLine_KeepEmpty ==
    /\ pc = "split"
    /\ ~CleanRaises(config)
    /\ \E line \in NextLines :
        /\ IsTitleLine(config, line)
        /\ clean_title(config, Strip(line)) # <<>>
        /\ lines' = Append(lines, line)
        /\ chapters' = IF current_title # None
                       THEN Append(chapters,
                                   create_chapter_data(config, current_title[1],
                                       Strip(JoinLines(current_content)), title_line))
                       ELSE chapters
        /\ current_title' = Some(clean_title(config, Strip(line)))
        /\ title_line' = Len(lines) + 1
        /\ current_content' = <<>>
    /\ UNCHANGED <<config, pc, volumes, current_volume, next_seg, result, error>>
    /\ UNCHANGED aux

\* one iteration of the loop: a title line whose cleaned title is not empty
SplitTitleLine ==
    /\ pc = "split"
    /\ ~CleanRaises(config)
    /\ \E line \in NextLines :
        /\ IsTitleLine(config, line)
        /\ clean_title(config, Strip(line)) # <<>>
        /\ lines' = Append(lines, line)
        /\ chapters' = Finalize(config, chapters, current_title, current_content, title_line)
        /\ current_title' = Some(clean_title(config, Strip(line)))
        /\ title_line' = Len(lines) + 1
        /\ current_content' = <<>>
    /\ UNCHANGED <<config, pc, volumes, current_volume, next_seg, result, error>>
    /\ UNCHANGED aux

\* variant: the title that was pending stays pending
SplitEmptyTitleLine_KeepTitle ==
    /\ pc = "split"
    /\ ~CleanRaises(config)
    /\ \E line \in NextLines :
        /\ IsTitleLine(config, line)
        /\ clean_title(config, Strip(line)) = <<>>
        /\ lines' = Append(lines, line)
        /\ chapters' = Finalize(config, chapters, current_title, current_content, title_line)
        /\ current_content' = Append(current_content, line)
    /\ UNCHANGED <<config, pc, current_title, title_line, volumes, current_volume,
                   next_seg, result, error>>
    /\ UNCHANGED aux

\* one iteration of the loop: a title line whose cleaned title is empty
SplitEmptyTitleLine ==
    /\ pc = "split"
    /\ ~CleanRaises(config)
    /\ \E line \in NextLines :
        /\ IsTitleLine(config, line)
        /\ clean_title(config, Strip(line)) = <<>>
        /\ lines' = Append(lines, line)
        /\ chapters' = Finalize(config, chapters, current_title, current_content, title_line)
        /\ current_content' = Append(current_content, line)
        /\ current_title' = None
    /\ UNCHANGED <<config, pc, title_line, volumes, current_volume, next_seg,
                   result, error>>
    /\ UNCHANGED aux

\* one iteration of the loop: re.sub raises inside _clean_title; parse wraps it
SplitCleanError ==
    /\ pc = "split"
    /\ CleanRaises(config)
    /\ \E line \in NextLines :
        /\ IsTitleLine(config, line)
        /\ lines' = Append(lines, line)
    /\ pc' = "failed"
    /\ error' = Some(parse_except(Exc("re.error", "bad_pattern", None)))
    /\ UNCHANGED <<config, chapters, current_title, current_content, title_line,
                   volumes, current_volume, next_seg, result>>
    /\ UNCHANGED aux

\* variant: the empty list is returned to parse
SplitEndEmpty_NoRaise ==
    /\ pc = "split"
    /\ AtEnd
    /\ Finalize(config, chapters, current_title, current_content, title_line) = <<>>
    /\ pc' = "build"
    /\ UNCHANGED <<config, lines, chapters, current_title, current_content,
                   title_line, volumes, current_volume, next_seg, result, error>>
    /\ UNCHANGED aux

\* end of the loop with no segment: _split_chapters raises, parse re-raises
SplitEndEmpty ==
    /\ pc = "split"
    /\ AtEnd
    /\ Finalize(config, chapters, current_title, current_content, title_line) = <<>>
    /\ pc' = "failed"
    /\ error' = Some(parse_except(Exc("FileParseError", "no_chapters_found", None)))
    /\ UNCHANGED <<config, lines, chapters, current_title, current_content,
                   title_line, volumes, current_volume, next_seg, result>>
    /\ UNCHANGED aux

\* variant: the pending segment is not added after the loop
SplitEnd_NoFlush ==
    /\ pc = "split"
    /\ AtEnd
    /\ chapters # <<>>
    /\ pc' = "build"
    /\ UNCHANGED <<config, lines, chapters, current_title, current_content,
                   title_line, volumes, current_volume, next_seg, result, error>>
    /\ UNCHANGED aux

\* end of the loop: the last segment is added and _split_chapters returns
SplitEnd ==
    /\ pc = "split"
    /\ AtEnd
    /\ Finalize(config, chapters, current_title, current_content, title_line) # <<>>
    /\ chapters' = Finalize(config, chapters, current_title, current_content, title_line)
    /\ pc' = "build"
    /\ UNCHANGED <<config, lines, current_title, current_content, title_line,
                   volumes, current_volume, next_seg, result, error>>
    /\ UNCHANGED aux

\* parse, no volume among the segments: return _create_flat_structure(chapters)
BuildFlat ==
    /\ pc = "build"
    /\ ~has_volumes(chapters)
    /\ result' = Some(create_flat_structure(chapters))
    /\ pc' = "done"
    /\ UNCHANGED <<config, lines, chapters, current_title, current_content,
                   title_line, volumes, current_volume, next_seg, error>>
    /\ UNCHANGED aux

\* variant: the Volume is created without the chapter of its title segment
BuildVolume_Empty ==
    /\ pc = "build"
    /\ has_volumes(chapters)
    /\ next_seg <= Len(chapters)
    /\ chapters[next_seg].is_volume
    /\ volumes' = Append(volumes, Volume(Some(chapters[next_seg].title), << >>))
    /\ current_volume' = Len(volumes) + 1
    /\ next_seg' = next_seg + 1
    /\ UNCHANGED <<config, pc, lines, chapters, current_title, current_content,
                   title_line, result, error>>
    /\ UNCHANGED aux

\* variant: the chapter of the volume keeps the type of the segment
BuildVolume_KeepType ==
    /\ pc = "build"
    /\ has_volumes(chapters)
    /\ next_seg <= Len(chapters)
    /\ chapters[next_seg].is_volume
    /\ LET d == chapters[next_seg]
       IN volumes' = Append(volumes,
              Volume(Some(d.title), << Chapter(d.title, d.content, d.type, d.src) >>))
    /\ current_volume' = Len(volumes) + 1
    /\ next_seg' = next_seg + 1
    /\ UNCHANGED <<config, pc, lines, chapters, current_title, current_content,
                   title_line, result, error>>
    /\ UNCHANGED aux

\* _create_volume_structure, one iteration: a segment with is_volume
BuildVolume ==
    /\ pc = "build"
    /\ has_volumes(chapters)
    /\ next_seg <= Len(chapters)
    /\ chapters[next_seg].is_volume
    /\ LET d == chapters[next_seg]
       IN volumes' = Append(volumes,
              Volume(Some(d.title), << Chapter(d.title, d.content, "chapter", d.src) >>))
    /\ current_volume' = Len(volumes) + 1
    /\ next_seg' = next_seg + 1
    /\ UNCHANGED <<config, pc, lines, chapters, current_title, current_content,
                   title_line, result, error>>
    /\ UNCHANGED aux

\* variant: the standalone Volume gets no title
BuildSpecial_Untitled ==
    /\ pc = "build"
    /\ has_volumes(chapters)
    /\ next_seg <= Len(chapters)
    /\ ~chapters[next_seg].is_volume
    /\ chapters[next_seg].type \in {"extra", "postscript", "notice"}
    /\ LET d == chapters[next_seg]
       IN volumes' = Append(volumes,
              Volume(None, << Chapter(d.title, d.content, d.type, d.src) >>))
    /\ next_seg' = next_seg + 1
    /\ UNCHANGED <<config, pc, lines, chapters, current_title, current_content,
                   title_line, current_volume, result, error>>
    /\ UNCHANGED aux

\* variant: the standalone Volume becomes the current volume
BuildSpecial_SetsCurrent ==
    /\ pc = "build"
    /\ has_volumes(chapters)
    /\ next_seg <= Len(chapters)
    /\ ~chapters[next_seg].is_volume
    /\ chapters[next_seg].type \in {"extra", "postscript", "notice"}
    /\ LET d == chapters[next_seg]
       IN volumes' = Append(volumes,
              Volume(Some(d.title), << Chapter(d.title, d.content, d.type, d.src) >>))
    /\ current_volume' = Len(volumes) + 1
    /\ next_seg' = next_seg + 1
    /\ UNCHANGED <<config, pc, lines, chapters, current_title, current_content,
                   title_line, result, error>>
    /\ UNCHANGED aux

\* _create_volume_structure, one iteration: special content
BuildSpecial ==
    /\ pc = "build"
    /\ has_volumes(chapters)
    /\ next_seg <= Len(chapters)
    /\ ~chapters[next_seg].is_volume
    /\ chapters[next_seg].type \in {"extra", "postscript", "notice"}
    /\ LET d == chapters[next_seg]
       IN volumes' = Append(volumes,
              Volume(Some(d.title), << Chapter(d.title, d.content, d.type, d.src) >>))
    /\ next_seg' = next_seg + 1
    /\ UNCHANGED <<config, pc, lines, chapters, current_title, current_content,
                   title_line, current_volume, result, error>>
    /\ UNCHANGED aux

\* variant: the chapter goes to the last Volume of the list
BuildRegular_LastVolume ==
    /\ pc = "build"
    /\ has_volumes(chapters)
    /\ next_seg <= Len(chapters)
    /\ ~chapters[next_seg].is_volume
    /\ chapters[next_seg].type \notin {"extra", "postscript", "notice"}
    /\ LET d == chapters[next_seg]
       IN volumes' =
            IF current_volume # 0
            THEN [volumes EXCEPT ![Len(volumes)].chapters =
                     Append(@, Chapter(d.title, d.content, d.type, d.src))]
            ELSE volumes
    /\ next_seg' = next_seg + 1
    /\ UNCHANGED <<config, pc, lines, chapters, current_title, current_content,
                   title_line, current_volume, result, error>>
    /\ UNCHANGED aux

\* variant: the chapter is put in front of the chapters of the volume
BuildRegular_Prepend ==
    /\ pc = "build"
    /\ has_volumes(chapters)
    /\ next_seg <= Len(chapters)
    /\ ~chapters[next_seg].is_volume
    /\ chapters[next_seg].type \notin {"extra", "postscript", "notice"}
    /\ LET d == chapters[next_seg]
       IN volumes' =
            IF current_volume # 0
            THEN [volumes EXCEPT ![current_volume].chapters =
                     << Chapter(d.title, d.content, d.type, d.src) >> \o @]
            ELSE volumes
    /\ next_seg' = next_seg + 1
    /\ UNCHANGED <<config, pc, lines, chapters, current_title, current_content,
                   title_line, current_volume, result, error>>
    /\ UNCHANGED aux

\* variant: with no volume open, an untitled leading volume is started
BuildRegular_Implicit ==
    /\ pc = "build"
    /\ has_volumes(chapters)
    /\ next_seg <= Len(chapters)
    /\ ~chapters[next_seg].is_volume
    /\ chapters[next_seg].type \notin {"extra", "postscript", "notice"}
    /\ LET d == chapters[next_seg]
       IN IF current_volume # 0
          THEN /\ volumes' = [volumes EXCEPT ![current_volume].chapters =
                                 Append(@, Chapter(d.title, d.content, d.type, d.src))]
               /\ current_volume' = current_volume
          ELSE /\ volumes' = Append(volumes,
                      Volume(None, << Chapter(d.title, d.content, d.type, d.src) >>))
               /\ current_volume' = Len(volumes) + 1
    /\ next_seg' = next_seg + 1
    /\ UNCHANGED <<config, pc, lines, chapters, current_title, current_content,
                   title_line, result, error>>
    /\ UNCHANGED aux

\* _create_volume_structure, one iteration: an ordinary chapter
BuildRegular ==
    /\ pc = "build"
    /\ has_volumes(chapters)
    /\ next_seg <= Len(chapters)
    /\ ~chapters[next_seg].is_volume
    /\ chapters[next_seg].type \notin {"extra", "postscript", "notice"}
    /\ LET d == chapters[next_seg]
       IN volumes' =
            IF current_volume # 0
            THEN [volumes EXCEPT ![current_volume].chapters =
                     Append(@, Chapter(d.title, d.content, d.type, d.src))]
            ELSE volumes
    /\ next_seg' = next_seg + 1
    /\ UNCHANGED <<config, pc, lines, chapters, current_title, current_content,
                   title_line, current_volume, result, error>>
    /\ UNCHANGED aux

\* _create_volume_structure returns and parse returns its list
BuildReturn ==
    /\ pc = "build"
    /\ has_volumes(chapters)
    /\ next_seg > Len(chapters)
    /\ result' = Some(volumes)
    /\ pc' = "done"
    /\ UNCHANGED <<config, lines, chapters, current_title, current_content,
                   title_line, volumes, current_volume, next_seg, error>>
    /\ UNCHANGED aux

Next ==
    \/ ReadOk
    \/ ReadFail
    \/ SplitBodyLine
    \/ SplitTitleLine
    \/ SplitEmptyTitleLine
    \/ SplitCleanError
    \/ SplitEndEmpty
    \/ SplitEnd
    \/ BuildFlat
    \/ BuildVolume
    \/ BuildSpecial
    \/ BuildRegular
    \/ BuildReturn

Spec == Init /\ [][Next]_vars

\* ------------------------------------------------- the assembly on its own
\* parse from the point where _split_chapters has returned a list of
\* segments; the segments are those of titled lines with the body "x" under
\* the default configuration, and src is the position in the list
MaxSegs == 3

BuildTitles == { <<"Vol">>, <<"Vol", "Ex">>, <<"Ch">>, <<"Ps">> }

InitBuild ==
    /\ supplied = <<>>
    /\ config = Update(get_default_config, supplied)
    /\ pc = "build"
    /\ \E n \in 1..MaxSegs : \E f \in [1..n -> BuildTitles] :
          chapters = [i \in 1..n |-> create_chapter_data(config, f[i], <<"x">>, i)]
    /\ lines = <<>>
    /\ current_title = None
    /\ current_content = <<>>
    /\ title_line = 0
    /\ volumes = <<>>
    /\ current_volume = 0
    /\ next_seg = 1
    /\ result = None
    /\ error = None
    /\ input = None
    /\ prev = None
    /\ tried = <<>>
    /\ gen = None
    /\ heap = <<>>
    /\ parsers = <<>>
    /\ arg = None
    /\ ret = None

NextBuild ==
    \/ BuildFlat
    \/ BuildVolume
    \/ BuildSpecial
    \/ BuildRegular
    \/ BuildReturn

SpecBuild == InitBuild /\ [][NextBuild]_vars

\* ------------------------------------------------ _clean_title on its own
\* _clean_title is called on a string, and again on what it returned
MaxCleanLen == 5

CleanAlphabet == {"[", "]", "(", ")", "nl", "sp", "x"}

CleanConfigs ==
    { <<>>,
      [title_clean_patterns |-> << Lit(<<"[", "x">>) >>] }

InitClean ==
    /\ supplied \in CleanConfigs
    /\ config = Update(get_default_config, supplied)
    /\ pc = "clean"
    /\ \E n \in 0..MaxCleanLen : \E t \in [1..n -> CleanAlphabet] : arg = Some(t)
    /\ ret = None
    /\ Entry
    /\ input = None
    /\ prev = None
    /\ tried = <<>>
    /\ gen = None
    /\ heap = <<>>
    /\ parsers = <<>>

CallClean ==
    /\ pc = "clean"
    /\ pc' = "cleaned"
    /\ ret' = << clean_title(config, arg[1]),
                 clean_title(config, clean_title(config, arg[1])) >>
    /\ UNCHANGED <<config, lines, chapters, current_title, current_content,
                   title_line, volumes, current_volume, next_seg, result, error,
                   supplied, input, prev, arg, tried,
                   heap, parsers, gen>>

SpecClean == InitClean /\ [][CallClean]_vars

\* ----------------------------------------- _detect_content_type on its own
MaxClassifyLen == 3

ClassifyAlphabet == {"Ps", "Ex", "Xt", "A", "a", "x"}

ClassifyConfigs ==
    { <<>>,
      [content_keywords |-> << [type |-> "notice", keywords |-> <<"x", "A">>],
                               [type |-> "extra", keywords |-> <<"a", "Ps">>] >>,
       single_word_types |-> << [word |-> "Xt", type |-> "extra"],
                                [word |-> "Ex", type |-> "notice"] >>],
      [content_keywords |-> << >>,
       single_word_types |-> << [word |-> "A", type |-> "extra"],
                                [word |-> "a", type |-> "postscript"],
                                [word |-> "Ps", type |-> "notice"] >>] }

InitClassify ==
    /\ supplied \in ClassifyConfigs
    /\ config = Update(get_default_config, supplied)
    /\ pc = "classify"
    /\ \E n \in 0..MaxClassifyLen : \E t \in [1..n -> ClassifyAlphabet] : arg = Some(t)
    /\ ret = None
    /\ Entry
    /\ input = None
    /\ prev = None
    /\ tried = <<>>
    /\ gen = None
    /\ heap = <<>>
    /\ parsers = <<>>

CallClassify ==
    /\ pc = "classify"
    /\ pc' = "classified"
    /\ ret' = Some(detect_content_type(config, arg[1]))
    /\ UNCHANGED <<config, lines, chapters, current_title, current_content,
                   title_line, volumes, current_volume, next_seg, result, error,
                   supplied, input, prev, arg, tried,
                   heap, parsers, gen>>

SpecClassify == InitClassify /\ [][CallClassify]_vars

\* ------------------------------------------ _read_file_content on its own
\* The bytes of a file are known by what the code asks of them: whether
\* they start with the UTF-8 byte order mark, what chardet.detect reports
\* (an encoding name or None, and a confidence in tenths), and which codecs
\* decode them.  "other" is a codec Python knows that is not in the fallback
\* list, "unknown" a name Python has no codec for (LookupError).
MinConfidence == 7

fallback_encodings == << "utf-8", "gbk", "gb2312", "big5", "utf-16" >>

Detectable == { None, Some("utf-8"), Some("utf-8-sig"), Some("gbk"), Some("other"), Some("unknown") }

Files ==
    { [exists |-> FALSE, bom |-> FALSE, encoding |-> None, confidence |-> 0, decodes |-> {}] }
    \cup
    { f \in [exists : {TRUE}, bom : BOOLEAN, encoding : Detectable,
             confidence : {0, MinConfidence, MinConfidence + 1, 10},
             decodes : SUBSET (Range(fallback_encodings) \cup {"other"})] :
        "gb2312" \in f.decodes => "gbk" \in f.decodes }

\* raw_data.decode(enc) succeeds; utf-8-sig is utf-8 without the mark
CanDecode(f, enc) ==
    IF enc = "utf-8-sig" THEN "utf-8" \in f.decodes ELSE enc \in f.decodes

\* the codec used for enc: utf-8-sig for utf-8 when the bytes start with the mark
Codec(f, enc) == IF f.bom /\ enc = "utf-8" THEN "utf-8-sig" ELSE enc

Text(codec, lossy) == [codec |-> codec, lossy |-> lossy]

\* variant: the last decode is strict
decode_replace_Strict(f) ==
    IF CanDecode(f, "utf-8") THEN Some(Text("utf-8", FALSE)) ELSE None

\* raw_data.decode("utf-8", errors="replace"): every invalid sequence
\* becomes U+FFFD, so there is always a text
decode_replace(f) == Some(Text("utf-8", ~CanDecode(f, "utf-8")))

InitRead ==
    /\ supplied = <<>>
    /\ config = Update(get_default_config, supplied)
    /\ pc = "open"
    /\ \E f \in Files : arg = Some(f)
    /\ ret = None
    /\ Entry
    /\ input = None
    /\ prev = None
    /\ tried = <<>>
    /\ gen = None
    /\ heap = <<>>
    /\ parsers = <<>>

\* open(file_path, "rb") raises
ReadOpenFail ==
    /\ pc = "open"
    /\ ~arg[1].exists
    /\ pc' = "failed"
    /\ error' = Some(Exc("FileNotFoundError", "no_such_file", None))
    /\ UNCHANGED <<config, lines, chapters, current_title, current_content,
                   title_line, volumes, current_volume, next_seg, result>>
    /\ UNCHANGED aux

\* the bytes are read and chardet.detect is called
ReadOpen ==
    /\ pc = "open"
    /\ arg[1].exists
    /\ pc' = "detected"
    /\ UNCHANGED <<config, lines, chapters, current_title, current_content,
                   title_line, volumes, current_volume, next_seg, result, error>>
    /\ UNCHANGED aux

\* variant: a confidence of exactly 0.7 is enough
ReadDetected_AtLeast ==
    /\ pc = "detected"
    /\ arg[1].encoding # None
    /\ arg[1].confidence >= MinConfidence
    /\ CanDecode(arg[1], Codec(arg[1], arg[1].encoding[1]))
    /\ pc' = "returned"
    /\ ret' = Some(Text(Codec(arg[1], arg[1].encoding[1]), FALSE))
    /\ UNCHANGED <<config, lines, chapters, current_title, current_content,
                   title_line, volumes, current_volume, next_seg, result, error,
                   supplied, input, prev, arg, tried,
                   heap, parsers, gen>>

\* a detected encoding with confidence above 0.7 decodes the bytes
ReadDetected ==
    /\ pc = "detected"
    /\ arg[1].encoding # None
    /\ arg[1].confidence > MinConfidence
    /\ CanDecode(arg[1], Codec(arg[1], arg[1].encoding[1]))
    /\ pc' = "returned"
    /\ ret' = Some(Text(Codec(arg[1], arg[1].encoding[1]), FALSE))
    /\ UNCHANGED <<config, lines, chapters, current_title, current_content,
                   title_line, volumes, current_volume, next_seg, result, error,
                   supplied, input, prev, arg, tried,
                   heap, parsers, gen>>

\* nothing detected, confidence too low, or the detected encoding fails
ReadDetectedSkip ==
    /\ pc = "detected"
    /\ ~ (/\ arg[1].encoding # None
          /\ arg[1].confidence > MinConfidence
          /\ CanDecode(arg[1], Codec(arg[1], arg[1].encoding[1])))
    /\ pc' = "fallback"
    /\ UNCHANGED <<config, lines, chapters, current_title, current_content,
                   title_line, volumes, current_volume, next_seg, result, error>>
    /\ UNCHANGED aux

\* one iteration of the fallback loop: the encoding decodes the bytes
ReadFallback ==
    /\ pc = "fallback"
    /\ Len(tried) < Len(fallback_encodings)
    /\ LET enc == fallback_encodings[Len(tried) + 1]
       IN /\ CanDecode(arg[1], Codec(arg[1], enc))
          /\ ret' = Some(Text(Codec(arg[1], enc), FALSE))
    /\ pc' = "returned"
    /\ UNCHANGED <<config, lines, chapters, current_title, current_content,
                   title_line, volumes, current_volume, next_seg, result, error,
                   supplied, input, prev, arg, tried,
                   heap, parsers, gen>>

\* one iteration of the fallback loop: the encoding fails, continue
ReadFallbackNext ==
    /\ pc = "fallback"
    /\ Len(tried) < Len(fallback_encodings)
    /\ LET enc == fallback_encodings[Len(tried) + 1]
       IN /\ ~CanDecode(arg[1], Codec(arg[1], enc))
          /\ tried' = Append(tried, enc)
    /\ UNCHANGED <<config, pc, lines, chapters, current_title, current_content,
                   title_line, volumes, current_volume, next_seg, result, error,
                   supplied, input, prev, arg, ret,
                   heap, parsers, gen>>

\* after the loop: decode with replacement, FileParseError if that raises
ReadLossy ==
    /\ pc = "fallback"
    /\ Len(tried) = Len(fallback_encodings)
    /\ IF decode_replace(arg[1]) # None
       THEN /\ pc' = "returned"
            /\ ret' = decode_replace(arg[1])
            /\ UNCHANGED error
       ELSE /\ pc' = "failed"
            /\ error' = Some(Exc("FileParseError", "cannot_decode", None))
            /\ UNCHANGED ret
    /\ UNCHANGED <<config, lines, chapters, current_title, current_content,
                   title_line, volumes, current_volume, next_seg, result,
                   supplied, input, prev, arg, tried,
                   heap, parsers, gen>>

NextRead ==
    \/ ReadOpenFail
    \/ ReadOpen
    \/ ReadDetected
    \/ ReadDetectedSkip
    \/ ReadFallback
    \/ ReadFallbackNext
    \/ ReadLossy

SpecRead == InitRead /\ [][NextRead]_vars

\* ------------------------------------- parse called again on one Parser
\* One Parser; parse is called on a file, and called again, on the same
\* file or on another one, after it has returned or raised.  prev keeps the
\* file and the outcome of each call before.
MaxTwiceLines == 2
MaxCalls == 3

TwiceLines == { <<"x">>, <<"Vol">>, <<"Ch">>, <<"Ps">>, <<"[", "]">> }

\* a missing file, a file with a volume, a postscript and a chapter, a file
\* with one chapter
OtherFiles ==
    { [exists |-> FALSE, lines |-> <<>>],
      [exists |-> TRUE, lines |-> << <<"Vol">>, <<"x">>, <<"Ps">>, <<"x">>,
                                      <<"Ch">>, <<"x">> >>],
      [exists |-> TRUE, lines |-> << <<"Ch">>, <<"x">> >>] }

TwiceFiles ==
    OtherFiles
    \cup
    { [exists |-> TRUE, lines |-> t] :
        t \in UNION { [1..n -> TwiceLines] : n \in 1..MaxTwiceLines } }

InitTwice ==
    /\ Construct
    /\ pc = "read"
    /\ Entry
    /\ \E f \in TwiceFiles : input = Some(f)
    /\ prev = <<>>
    /\ tried = <<>>
    /\ gen = None
    /\ heap = <<>>
    /\ parsers = <<>>
    /\ arg = None
    /\ ret = None

Outcome == [input |-> input[1], result |-> result, error |-> error]

\* variant: the segments of the call before are still in the list
Reparse_KeepState ==
    /\ pc \in {"done", "failed"}
    /\ Len(prev) < MaxCalls - 1
    /\ prev' = Append(prev, Outcome)
    /\ pc' = "read"
    /\ lines' = <<>>
    /\ current_title' = None
    /\ current_content' = <<>>
    /\ title_line' = 0
    /\ volumes' = <<>>
    /\ current_volume' = 0
    /\ next_seg' = 1
    /\ result' = None
    /\ error' = None
    /\ \E f \in {input[1]} \cup OtherFiles : input' = Some(f)
    /\ UNCHANGED <<config, chapters, supplied, arg, ret, tried,
                   heap, parsers, gen>>

\* parse has returned or raised and is called again, on the same file or
\* on one of three others:
\* self.config is the only attribute of the Parser and parse does not
\* assign it; every other name is a local of the new call
Reparse ==
    /\ pc \in {"done", "failed"}
    /\ Len(prev) < MaxCalls - 1
    /\ prev' = Append(prev, Outcome)
    /\ pc' = "read"
    /\ lines' = <<>>
    /\ chapters' = <<>>
    /\ current_title' = None
    /\ current_content' = <<>>
    /\ title_line' = 0
    /\ volumes' = <<>>
    /\ current_volume' = 0
    /\ next_seg' = 1
    /\ result' = None
    /\ error' = None
    /\ \E f \in {input[1]} \cup OtherFiles : input' = Some(f)
    /\ UNCHANGED <<config, supplied, arg, ret, tried,
                   heap, parsers, gen>>

NextTwice ==
    \/ ReadOk
    \/ ReadFail
    \/ SplitBodyLine
    \/ SplitTitleLine
    \/ SplitEmptyTitleLine
    \/ SplitCleanError
    \/ SplitEndEmpty
    \/ SplitEnd
    \/ BuildFlat
    \/ BuildVolume
    \/ BuildSpecial
    \/ BuildRegular
    \/ BuildReturn
    \/ Reparse

SpecTwice == InitTwice /\ [][NextTwice]_vars

\* --------------------------------------- the line predicates on their own
\* _is_exclude_line, _is_volume_title and _is_chapter_title are called on
\* one line
MaxShapeLen == 4

ShapeAlphabet == {"Vol", "Ch", "Ex", "x", "L24", "sp", "tab"}

ShapeConfigs ==
    { <<>>,
      [volume_patterns |-> << P(FALSE, "Vol") >>,
       chapter_patterns |-> << P(FALSE, "Ch") >>,
       exclude_patterns |-> << P(FALSE, "Ex") >>] }

InitShape ==
    /\ supplied \in ShapeConfigs
    /\ config = Update(get_default_config, supplied)
    /\ pc = "shape"
    /\ \E n \in 0..MaxShapeLen : \E t \in [1..n -> ShapeAlphabet] : arg = Some(t)
    /\ ret = None
    /\ Entry
    /\ input = None
    /\ prev = None
    /\ tried = <<>>
    /\ gen = None
    /\ heap = <<>>
    /\ parsers = <<>>

CallShape ==
    /\ pc = "shape"
    /\ pc' = "shaped"
    /\ ret' = Some([exclude |-> is_exclude_line(config, arg[1]),
                    volume |-> is_volume_title(config, arg[1]),
                    chapter |-> is_chapter_title(config, arg[1])])
    /\ UNCHANGED <<config, lines, chapters, current_title, current_content,
                   title_line, volumes, current_volume, next_seg, result, error,
                   supplied, input, prev, arg, tried,
                   heap, parsers, gen>>

SpecShape == InitShape /\ [][CallShape]_vars

\* ------------------------------------------------------ several Parsers
\* Parsers are constructed one after the other and parse is called on them.
\* heap holds the dict objects, parsers[p].ref is the dict that Parser p has
\* as self.config, parsers[p].supplied the argument it was constructed with.
MaxParsers == 2

\* the files parse is called on: those of OtherFiles and one whose only
\* heading is a pair of brackets
IsoFiles ==
    OtherFiles \cup { [exists |-> TRUE, lines |-> << <<"[", "]">>, <<"x">> >>] }

InitIso ==
    /\ supplied \in Configs
    /\ heap = << Update(get_default_config, supplied) >>
    /\ parsers = << [ref |-> 1, supplied |-> supplied, parsed |-> FALSE] >>
    /\ config = heap[1]
    /\ pc = "idle"
    /\ Entry
    /\ input = None
    /\ prev = None
    /\ tried = <<>>
    /\ gen = None
    /\ arg = None
    /\ ret = None

\* variant: one dict of defaults is shared by all Parsers and updated in place
NewParser_SharedDefaults ==
    /\ pc \in {"idle", "done", "failed"}
    /\ Len(parsers) < MaxParsers
    /\ \E given \in Configs :
        /\ heap' = [heap EXCEPT ![1] = Update(heap[1], given)]
        /\ parsers' = Append(parsers, [ref |-> 1, supplied |-> given, parsed |-> FALSE])
    /\ UNCHANGED <<config, pc, lines, chapters, current_title, current_content,
                   title_line, volumes, current_volume, next_seg, result, error,
                   supplied, input, prev, arg, ret, tried, gen>>

\* Parser(given): _get_default_config builds a new dict, update changes
\* that dict only
NewParser ==
    /\ pc \in {"idle", "done", "failed"}
    /\ Len(parsers) < MaxParsers
    /\ \E given \in Configs :
        /\ heap' = Append(heap, Update(get_default_config, given))
        /\ parsers' = Append(parsers, [ref |-> Len(heap) + 1, supplied |-> given,
                                       parsed |-> FALSE])
    /\ UNCHANGED <<config, pc, lines, chapters, current_title, current_content,
                   title_line, volumes, current_volume, next_seg, result, error,
                   supplied, input, prev, arg, ret, tried, gen>>

\* parse is called on a Parser that has not parsed yet: self.config is the
\* dict of that Parser, the locals are new
CallParse ==
    /\ pc \in {"idle", "done", "failed"}
    /\ \E p \in 1..Len(parsers) :
        /\ ~parsers[p].parsed
        /\ parsers' = [parsers EXCEPT ![p].parsed = TRUE]
        /\ config' = heap[parsers[p].ref]
        /\ supplied' = parsers[p].supplied
    /\ \E f \in IsoFiles : input' = Some(f)
    /\ pc' = "read"
    /\ lines' = <<>>
    /\ chapters' = <<>>
    /\ current_title' = None
    /\ current_content' = <<>>
    /\ title_line' = 0
    /\ volumes' = <<>>
    /\ current_volume' = 0
    /\ next_seg' = 1
    /\ result' = None
    /\ error' = None
    /\ UNCHANGED <<prev, arg, ret, tried, heap, gen>>

NextIso ==
    \/ NewParser
    \/ CallParse
    \/ ReadOk
    \/ ReadFail
    \/ SplitBodyLine
    \/ SplitTitleLine
    \/ SplitEmptyTitleLine
    \/ SplitCleanError
    \/ SplitEndEmpty
    \/ SplitEnd
    \/ BuildFlat
    \/ BuildVolume
    \/ BuildSpecial
    \/ BuildRegular
    \/ BuildReturn

SpecIso == InitIso /\ [][NextIso]_vars

\* ------------------------------------------------- the consumer's walk
\* Writer.write_epub: the Volumes in list order, the chapters of each in
\* order
RECURSIVE Walk(_)
Walk(vs) == IF vs = <<>> THEN <<>> ELSE Head(vs).chapters \o Walk(Tail(vs))

\* ------------------------------------------ EpubGenerator.generate_epub
\* generate_epub constructs a Parser with parser_config, parses the input,
\* processes the content of every chapter, looks for a writer and writes.
\* gen.writer tells whether the Writer class could be imported, gen.steps
\* lists the steps that were started, gen.processed counts the chapters
\* processed, gen.written tells whether write_epub has returned.

\* content.split("\n")
RECURSIVE SplitText(_)
SplitText(s) ==
    IF "nl" \notin Range(s) THEN << s >>
    ELSE LET i == CHOOSE k \in 1..Len(s) :
                      s[k] = "nl" /\ \A m \in 1..(k - 1) : s[m] # "nl"
         IN << SubSeq(s, 1, i - 1) >> \o SplitText(SubSeq(s, i + 1, Len(s)))

\* TextProcessor._escape_html
escape_html(text) ==
    [i \in 1..Len(text) |->
        CASE text[i] = "&" -> "&amp;"
          [] text[i] = "<" -> "&lt;"
          [] text[i] = ">" -> "&gt;"
          [] OTHER -> text[i]]

\* the loop of process_content: a paragraph for every line that is not blank
RECURSIVE html_lines(_)
html_lines(ls) ==
    IF ls = <<>> THEN <<>>
    ELSE IF Strip(Head(ls)) = <<>> THEN html_lines(Tail(ls))
    ELSE << <<"<p>">> \o escape_html(Strip(Head(ls))) \o <<"</p>">> >>
         \o html_lines(Tail(ls))

\* TextProcessor.process_content
process_content(content) ==
    IF Strip(content) = <<>> THEN <<>>
    ELSE JoinLines(html_lines(SplitText(content)))

\* the handler of generate_epub: any exception is replaced by an
\* EpubGenerationError raised from it
generate_except(e) == Exc("EpubGenerationError", "generate_failed", Some(e))

\* the Volume and the place in it of the k-th chapter of the loops
Locate(vs, k) ==
    CHOOSE pr \in {<<v, j>> : v \in 1..Len(vs), j \in 1..Len(Walk(vs))} :
        /\ pr[2] <= Len(vs[pr[1]].chapters)
        /\ Len(Walk(SubSeq(vs, 1, pr[1] - 1))) + pr[2] = k

InitGen ==
    /\ Construct
    /\ pc = "read"
    /\ Entry
    /\ \E f \in IsoFiles : input = Some(f)
    /\ \E w \in BOOLEAN :
         gen = [writer |-> w, steps |-> <<"parse">>, processed |-> 0, written |-> FALSE]
    /\ prev = None
    /\ tried = <<>>
    /\ heap = <<>>
    /\ parsers = <<>>
    /\ arg = None
    /\ ret = None

\* variant: a failure of parse is swallowed and the writer is looked for
GenParseFail_Continue ==
    /\ pc = "failed"
    /\ pc' = "check"
    /\ gen' = [gen EXCEPT !.steps = Append(@, "check")]
    /\ UNCHANGED <<config, lines, chapters, current_title, current_content,
                   title_line, volumes, current_volume, next_seg, result, error,
                   supplied, input, prev, arg, ret, tried, heap, parsers>>

\* parse raised: the handler raises EpubGenerationError from the exception
GenParseFail ==
    /\ pc = "failed"
    /\ pc' = "gen_failed"
    /\ error' = Some(generate_except(error[1]))
    /\ UNCHANGED <<config, lines, chapters, current_title, current_content,
                   title_line, volumes, current_volume, next_seg, result>>
    /\ UNCHANGED aux

\* parse returned: the loops over the chapters start
GenParsed ==
    /\ pc = "done"
    /\ pc' = "process"
    /\ gen' = [gen EXCEPT !.steps = Append(@, "process")]
    /\ UNCHANGED <<config, lines, chapters, current_title, current_content,
                   title_line, volumes, current_volume, next_seg, result, error,
                   supplied, input, prev, arg, ret, tried, heap, parsers>>

\* one iteration of the inner loop: the content of a chapter is replaced
GenProcess ==
    /\ pc = "process"
    /\ gen.processed < Len(Walk(result[1]))
    /\ LET pr == Locate(result[1], gen.processed + 1)
       IN result' = Some([result[1] EXCEPT ![pr[1]].chapters[pr[2]].content =
                                              process_content(@)])
    /\ gen' = [gen EXCEPT !.processed = @ + 1]
    /\ UNCHANGED <<config, pc, lines, chapters, current_title, current_content,
                   title_line, volumes, current_volume, next_seg, error,
                   supplied, input, prev, arg, ret, tried, heap, parsers>>

\* the loops are over: the writer is looked for
GenProcessed ==
    /\ pc = "process"
    /\ gen.processed = Len(Walk(result[1]))
    /\ pc' = "check"
    /\ gen' = [gen EXCEPT !.steps = Append(@, "check")]
    /\ UNCHANGED <<config, lines, chapters, current_title, current_content,
                   title_line, volumes, current_volume, next_seg, result, error,
                   supplied, input, prev, arg, ret, tried, heap, parsers>>

\* there is no writer: EpubGenerationError is raised, and the handler
\* raises EpubGenerationError from it
GenCheckFail ==
    /\ pc = "check"
    /\ ~gen.writer
    /\ pc' = "gen_failed"
    /\ error' = Some(generate_except(Exc("EpubGenerationError", "no_ebooklib", None)))
    /\ UNCHANGED <<config, lines, chapters, current_title, current_content,
                   title_line, volumes, current_volume, next_seg, result>>
    /\ UNCHANGED aux

\* there is a writer: write_epub is called
GenCheckOk ==
    /\ pc = "check"
    /\ gen.writer
    /\ pc' = "write"
    /\ gen' = [gen EXCEPT !.steps = Append(@, "write")]
    /\ UNCHANGED <<config, lines, chapters, current_title, current_content,
                   title_line, volumes, current_volume, next_seg, result, error,
                   supplied, input, prev, arg, ret, tried, heap, parsers>>

\* write_epub returns
GenWrite ==
    /\ pc = "write"
    /\ pc' = "gen_done"
    /\ gen' = [gen EXCEPT !.written = TRUE]
    /\ UNCHANGED <<config, lines, chapters, current_title, current_content,
                   title_line, volumes, current_volume, next_seg, result, error,
                   supplied, input, prev, arg, ret, tried, heap, parsers>>

\* write_epub raises (the output cannot be written)
GenWriteRaise ==
    /\ pc = "write"
    /\ pc' = "gen_failed"
    /\ error' = Some(generate_except(Exc("OSError", "cannot_write", None)))
    /\ UNCHANGED <<config, lines, chapters, current_title, current_content,
                   title_line, volumes, current_volume, next_seg, result>>
    /\ UNCHANGED aux

NextGen ==
    \/ ReadOk
    \/ ReadFail
    \/ SplitBodyLine
    \/ SplitTitleLine
    \/ SplitEmptyTitleLine
    \/ SplitCleanError
    \/ SplitEndEmpty
    \/ SplitEnd
    \/ BuildFlat
    \/ BuildVolume
    \/ BuildSpecial
    \/ BuildRegular
    \/ BuildReturn
    \/ GenParseFail
    \/ GenParsed
    \/ GenProcess
    \/ GenProcessed
    \/ GenCheckFail
    \/ GenCheckOk
    \/ GenWrite
    \/ GenWriteRaise

SpecGen == InitGen /\ [][NextGen]_vars

\* ---------------------------------------------------------------- claims
IsFlat(vs) == Len(vs) = 1 /\ vs[1].title = None

LastLine == lines[Len(lines)]

\* the line is a contiguous part of the content
IsSubstring(line, content) ==
    \E st \in 1..(Len(content) - Len(line) + 1) :
        SubSeq(content, st, st + Len(line) - 1) = line

\* C1: every Chapter of every Volume returned by parse has a content that
\* is not empty and equals its own stripped form.
C1_NonEmptyStrippedContent ==
    result # None =>
        \A i \in 1..Len(result[1]) : \A j \in 1..Len(result[1][i].chapters) :
            /\ result[1][i].chapters[j].content # <<>>
            /\ Strip(result[1][i].chapters[j].content) = result[1][i].chapters[j].content

\* a returned Chapter whose body began with a blank line or a blank
C1_Witness ==
    /\ pc = "done"
    /\ \E i \in 1..Len(result[1]) : \E j \in 1..Len(result[1][i].chapters) :
         LET c == result[1][i].chapters[j]
         IN /\ c.src < Len(lines)
            /\ lines[c.src + 1] \in {<<>>, <<"sp", "Ch">>}

\* C2: a returned list is either flat (one Volume, title None) or has only
\* titled Volumes, never a mix, and a title is None exactly when no segment
\* is a volume.
C2_StructuralDichotomy ==
    result # None =>
        LET vs == result[1]
        IN /\ IsFlat(vs) \/ (\A i \in 1..Len(vs) : vs[i].title # None)
           /\ \A i \in 1..Len(vs) :
                (vs[i].title = None) <=> ~(\E k \in 1..Len(chapters) : chapters[k].is_volume)

\* a nested result that holds a genuine volume and a standalone special one
C2_Witness ==
    /\ pc = "done"
    /\ Len(result[1]) >= 2
    /\ \E i \in 1..Len(result[1]) : result[1][i].chapters[1].content_type # "chapter"

C4_FlatOrNested ==
    pc = "done" =>
        LET vs == result[1]
        IN IF \E k \in 1..Len(chapters) : chapters[k].is_volume
           THEN vs = volumes /\ vs # <<>> /\ next_seg = Len(chapters) + 1
           ELSE /\ Len(vs) = 1
                /\ vs[1].title = None
                /\ volumes = <<>>
                /\ Len(vs[1].chapters) = Len(chapters)
                /\ \A i \in 1..Len(chapters) :
                     /\ vs[1].chapters[i].title = chapters[i].title
                     /\ vs[1].chapters[i].content = chapters[i].content
                     /\ vs[1].chapters[i].content_type = chapters[i].type

\* a flat result of two segments or more, one of them of a special type
C4_Witness ==
    /\ pc = "done"
    /\ IsFlat(result[1])
    /\ Len(result[1][1].chapters) >= 2
    /\ \E i \in 1..Len(result[1][1].chapters) :
         result[1][1].chapters[i].content_type # "chapter"

\* C5: inside each returned Volume the chapters are in the order of their
\* title lines in the input, and each carries the cleaned title of its line.
C5_OrderPreserved ==
    pc = "done" =>
        \A v \in 1..Len(result[1]) :
            LET cs == result[1][v].chapters
            IN /\ \A i \in 1..Len(cs) :
                    /\ cs[i].src \in 1..Len(lines)
                    /\ cs[i].title = clean_title(config, Strip(lines[cs[i].src]))
               /\ \A i \in 1..Len(cs) : \A j \in 1..Len(cs) :
                    i < j => cs[i].src < cs[j].src

\* a nested result with a Volume of two chapters
C5_Witness ==
    /\ pc = "done"
    /\ ~IsFlat(result[1])
    /\ \E v \in 1..Len(result[1]) : Len(result[1][v].chapters) >= 2

\* C6: a loop iteration on an excluded line leaves the segment list and the
\* pending title alone and appends the raw line to the buffer, and no
\* segment is ever opened by an excluded line.
C6_ExcludeStep ==
    (pc = "split" /\ Len(lines') = Len(lines) + 1
     /\ is_exclude_line(config, lines'[Len(lines')]))
    => /\ pc' = "split"
       /\ chapters' = chapters
       /\ current_title' = current_title
       /\ current_content' = Append(current_content, lines'[Len(lines')])

C6_ExcludePrecedence ==
    /\ [][C6_ExcludeStep]_vars
    /\ [](\A k \in 1..Len(chapters) : ~is_exclude_line(config, lines[chapters[k].src]))

\* an excluded line that matches a chapter pattern sits in the buffer of a
\* pending segment
C6_Witness ==
    /\ pc = "split"
    /\ lines # <<>>
    /\ is_exclude_line(config, LastLine)
    /\ is_chapter_title(config, LastLine)
    /\ current_title # None
    /\ current_content # <<>>
    /\ current_content[Len(current_content)] = LastLine

\* C7: when the loop ends with no segment emitted and nothing to emit, parse
\* fails with the FileParseError that says no chapter was found, unwrapped,
\* and returns nothing.
C7_EndStep ==
    (pc = "split" /\ pc' # "split" /\ lines' = lines
     /\ chapters = <<>>
     /\ (current_title = None \/ Strip(JoinLines(current_content)) = <<>>))
    => /\ pc' = "failed"
       /\ result' = None
       /\ error' = Some(Exc("FileParseError", "no_chapters_found", None))

C7_NoSegmentsFails ==
    /\ [][C7_EndStep]_vars
    /\ [](pc \in {"build", "done"} => chapters # <<>>)

\* the failure for an input whose titled segments all have an empty body
C7_Witness ==
    /\ pc = "failed"
    /\ error = Some(Exc("FileParseError", "no_chapters_found", None))
    /\ \E i \in 1..Len(lines) : IsTitleLine(config, lines[i])

\* C8: a parse that returns gives at least one Volume and its input holds a
\* title line; an input without a title line never gives a result.
C8_NeverEmptyList ==
    /\ result # None => Len(result[1]) >= 1
    /\ result # None => \E i \in 1..Len(lines) : IsTitleLine(config, lines[i])
    /\ pc = "done" => result # None

\* a nested result from which a leading ordinary chapter was dropped
C8_Witness ==
    /\ pc = "done"
    /\ Len(result[1]) = 1
    /\ result[1][1].title # None
    /\ Len(chapters) >= 2
    /\ ~chapters[1].is_volume

\* C9: a failure is always a FileParseError and never comes with a result;
\* an exception of another class, raised while reading or segmenting, is
\* kept as its cause, and the no-chapters FileParseError has no cause.
C9_FailStep ==
    (pc # "failed" /\ pc' = "failed")
    => /\ result' = None
       /\ error' # None
       /\ error'[1].type = "FileParseError"
       /\ pc = "read" => error'[1].cause = Some("FileNotFoundError")
       /\ (pc = "split" /\ lines' # lines) => error'[1].cause = Some("re.error")
       /\ (pc = "split" /\ lines' = lines) =>
             error'[1] = Exc("FileParseError", "no_chapters_found", None)

C9_WrappedFailure ==
    /\ [][C9_FailStep]_vars
    /\ [](pc # "failed" => error = None)
    /\ [](pc = "failed" => result = None)

\* a failure of the segmentation caused by a pattern that does not compile
C9_Witness ==
    /\ pc = "failed"
    /\ error[1].cause = Some("re.error")
    /\ Len(lines) >= 2

\* C10 as stated: the raw text of a title line whose cleaned title is empty
\* is part of the content of an emitted segment.
C10_EmptyTitleFolded ==
    pc = "done" =>
        \A i \in 1..Len(lines) :
            (IsTitleLine(config, lines[i])
             /\ clean_title(config, Strip(lines[i])) = <<>>)
            => \E k \in 1..Len(chapters) : IsSubstring(lines[i], chapters[k].content)

\* C11: the effective configuration holds, for every key supplied, the
\* supplied value whole, and for every other key the default value.
C11_KeyLevelOverride ==
    /\ DOMAIN config = DOMAIN get_default_config \cup DOMAIN supplied
    /\ \A k \in DOMAIN config :
         config[k] = IF k \in DOMAIN supplied THEN supplied[k]
                     ELSE get_default_config[k]

\* a Parser built with a partial configuration has returned a result
C11_Witness ==
    /\ pc = "done"
    /\ "chapter_patterns" \in DOMAIN supplied
    /\ config.chapter_patterns # get_default_config.chapter_patterns
    /\ config.volume_patterns = get_default_config.volume_patterns

\* C14 as stated: every returned Chapter has one of the four content types
\* and a title that is not empty.
C14_TypeEnumeration ==
    result # None =>
        \A i \in 1..Len(result[1]) : \A j \in 1..Len(result[1][i].chapters) :
            /\ result[1][i].chapters[j].content_type
                  \in {"chapter", "extra", "postscript", "notice"}
            /\ result[1][i].chapters[j].title # <<>>

\* C20 as stated: the is_volume flag of every emitted segment tells whether
\* the raw line that opened the segment was classified as a volume title.
C20_FlagFromRawLine ==
    \A k \in 1..Len(chapters) :
        chapters[k].is_volume = is_volume_title(config, lines[chapters[k].src])

\* one iteration of the loop of the nested assembly
BuildStep == pc = "build" /\ next_seg' = next_seg + 1

IsSpecial(d) == d.type \in {"extra", "postscript", "notice"}

IsOrdinary(d) == ~d.is_volume /\ ~IsSpecial(d)

\* the last volume segment before segment k, 0 when there is none
LastVolumeBefore(k) ==
    IF \E i \in 1..(k - 1) : chapters[i].is_volume
    THEN CHOOSE i \in 1..(k - 1) :
            chapters[i].is_volume /\ \A m \in (i + 1)..(k - 1) : ~chapters[m].is_volume
    ELSE 0

\* C15: an iteration on a volume segment appends a Volume titled with the
\* segment's title whose only chapter is built from the segment with the
\* type chapter, and makes it the current volume; an iteration on an ordinary
\* chapter with a volume open appends the chapter to that volume.
C15_VolumeStep ==
    (BuildStep /\ chapters[next_seg].is_volume)
    => /\ volumes' = Append(volumes,
            [title |-> Some(chapters[next_seg].title),
             chapters |-> << [title |-> chapters[next_seg].title,
                              content |-> chapters[next_seg].content,
                              content_type |-> "chapter",
                              src |-> chapters[next_seg].src] >>])
       /\ current_volume' = Len(volumes')

C15_OrdinaryStep ==
    (BuildStep /\ IsOrdinary(chapters[next_seg]) /\ LastVolumeBefore(next_seg) # 0)
    => /\ Len(volumes') = Len(volumes)
       /\ volumes'[current_volume].title = Some(chapters[LastVolumeBefore(next_seg)].title)
       /\ volumes'[current_volume].chapters =
             Append(volumes[current_volume].chapters,
                    [title |-> chapters[next_seg].title,
                     content |-> chapters[next_seg].content,
                     content_type |-> chapters[next_seg].type,
                     src |-> chapters[next_seg].src])

C15_VolumeSegment == [][C15_VolumeStep /\ C15_OrdinaryStep]_vars

\* a returned Volume of two chapters whose title classifies as notice and
\* whose first chapter has the type chapter
C15_Witness ==
    /\ pc = "done"
    /\ \E v \in 1..Len(result[1]) :
         /\ Len(result[1][v].chapters) >= 2
         /\ result[1][v].title # None
         /\ detect_content_type(config, result[1][v].title[1]) = "notice"
         /\ result[1][v].chapters[1].title = result[1][v].title[1]
         /\ result[1][v].chapters[1].content_type = "chapter"

\* C16: an iteration on a special segment appends a standalone Volume titled
\* with the segment's title, holding one Chapter of the segment's type, and
\* leaves the current volume alone; in the result an ordinary chapter is in
\* the last genuine volume opened before it.
C16_SpecialStep ==
    (BuildStep /\ ~chapters[next_seg].is_volume /\ IsSpecial(chapters[next_seg]))
    => /\ volumes' = Append(volumes,
            [title |-> Some(chapters[next_seg].title),
             chapters |-> << [title |-> chapters[next_seg].title,
                              content |-> chapters[next_seg].content,
                              content_type |-> chapters[next_seg].type,
                              src |-> chapters[next_seg].src] >>])
       /\ current_volume' = current_volume

C16_OrdinaryGoesToGenuine ==
    (pc = "done" /\ \E i \in 1..Len(chapters) : chapters[i].is_volume)
    => \A k \in 1..Len(chapters) :
         (IsOrdinary(chapters[k]) /\ LastVolumeBefore(k) # 0)
         => \E v \in 1..Len(result[1]) :
              /\ result[1][v].chapters[1].src = chapters[LastVolumeBefore(k)].src
              /\ \E j \in 2..Len(result[1][v].chapters) :
                   result[1][v].chapters[j].src = chapters[k].src

C16_StandaloneSpecial ==
    /\ [][C16_SpecialStep]_vars
    /\ []C16_OrdinaryGoesToGenuine

\* a result for volume, special, ordinary: the ordinary chapter sits in the
\* genuine volume, and the special one stands alone after it
C16_Witness ==
    /\ pc = "done"
    /\ \E k \in 2..(Len(chapters) - 1) :
         /\ chapters[k - 1].is_volume
         /\ ~chapters[k].is_volume /\ IsSpecial(chapters[k])
         /\ IsOrdinary(chapters[k + 1])
         /\ \E v \in 1..Len(result[1]) :
              /\ result[1][v].chapters[1].src = chapters[k - 1].src
              /\ Len(result[1][v].chapters) = 2
              /\ result[1][v].chapters[2].src = chapters[k + 1].src
              /\ v < Len(result[1])
              /\ result[1][v + 1].chapters[1].src = chapters[k].src

\* C17: in the nested assembly an iteration on an ordinary chapter that no
\* volume segment precedes changes nothing and raises nothing, and the
\* chapter is in no Volume of the result.
C17_DropStep ==
    (BuildStep /\ IsOrdinary(chapters[next_seg]) /\ LastVolumeBefore(next_seg) = 0)
    => /\ volumes' = volumes
       /\ current_volume' = current_volume
       /\ pc' = "build"
       /\ error' = None

C17_DroppedNowhere ==
    (pc = "done" /\ \E i \in 1..Len(chapters) : chapters[i].is_volume)
    => /\ error = None
       /\ \A k \in 1..Len(chapters) :
            (IsOrdinary(chapters[k]) /\ LastVolumeBefore(k) = 0)
            => \A v \in 1..Len(result[1]) : \A j \in 1..Len(result[1][v].chapters) :
                 result[1][v].chapters[j].src # chapters[k].src

C17_LeadingChapterDropped ==
    /\ [][C17_DropStep]_vars
    /\ []C17_DroppedNowhere

\* a nested result for a list that begins with an ordinary chapter
C17_Witness ==
    /\ pc = "done"
    /\ Len(chapters) >= 3
    /\ IsOrdinary(chapters[1])
    /\ \E i \in 2..Len(chapters) : chapters[i].is_volume
    /\ \A v \in 1..Len(result[1]) : \A j \in 1..Len(result[1][v].chapters) :
         result[1][v].chapters[j].src # chapters[1].src

\* C12 as stated: cleaning what _clean_title returned gives the same string.
C12_CleanIdempotent ==
    pc = "cleaned" => ret[2] = ret[1]

\* C12 amended: with the default cleaning patterns, cleaning what
\* _clean_title returned for a string without a line feed gives the same
\* string.
C12_DefaultCleanIdempotent ==
    (pc = "cleaned"
     /\ config.title_clean_patterns = get_default_config.title_clean_patterns
     /\ "nl" \notin Range(arg[1]))
    => ret[2] = ret[1]

\* the default patterns removed a bracket span and a parenthesis span with
\* its blanks from a one-line string and left something
C12_Witness ==
    /\ pc = "cleaned"
    /\ config.title_clean_patterns = get_default_config.title_clean_patterns
    /\ "nl" \notin Range(arg[1])
    /\ ret[1] # <<>>
    /\ Len(ret[1]) + 4 <= Len(arg[1])
    /\ {"[", "]", "(", ")"} \subseteq Range(arg[1])

\* C13: classify returns the type of the first category, in declared order,
\* one of whose keywords occurs in the title without regard to case, even
\* if a later category matches too; if no category matches, the type of the
\* first single-word entry, in declared order, whose word occurs in the
\* title as written; otherwise chapter.
C13_ClassifyOrder ==
    pc = "classified" =>
        LET cats == config.content_keywords
            words == config.single_word_types
            t == arg[1]
            Hit(i) == \E k \in 1..Len(cats[i].keywords) : \E m \in 1..Len(t) :
                          Lower(cats[i].keywords[k]) = Lower(t[m])
            WHit(i) == \E m \in 1..Len(t) : t[m] = words[i].word
        IN IF \E i \in 1..Len(cats) : Hit(i)
           THEN \E i \in 1..Len(cats) :
                    /\ Hit(i)
                    /\ \A j \in 1..(i - 1) : ~Hit(j)
                    /\ ret[1] = cats[i].type
           ELSE IF \E i \in 1..Len(words) : WHit(i)
                THEN \E i \in 1..Len(words) :
                         /\ WHit(i)
                         /\ \A j \in 1..(i - 1) : ~WHit(j)
                         /\ ret[1] = words[i].type
                ELSE ret[1] = "chapter"

\* a title in which a keyword of the first category occurs only in the
\* other case and a keyword of the second category occurs as written:
\* the first category is returned
C13_Witness ==
    /\ pc = "classified"
    /\ Len(config.content_keywords) = 2
    /\ arg[1] = <<"Ps", "a">>
    /\ ret = Some("notice")

\* C18: for a file that can be opened, _read_file_content never raises: when
\* the detected encoding and every fallback encoding have failed, the
\* decode with replacement returns a text, and no decode failure is raised.
C18_LossyStep ==
    (pc = "fallback" /\ Len(tried) = Len(fallback_encodings))
    => (pc' = "returned" /\ ret' # None /\ ret'[1].lossy /\ error' = None)

C18_NoDecodeFailure ==
    /\ pc = "failed" => ~arg[1].exists
    /\ error # None => error[1].type # "FileParseError"
    /\ pc = "returned" => ret # None

C19_SameOutcome ==
    pc \in {"done", "failed"} =>
        \A i \in 1..Len(prev) :
            prev[i].input = input[1] =>
                prev[i].result = result /\ prev[i].error = error

\* a third call returned a nested list for the file of the first call,
\* after a second call on another file that failed
C19_Witness ==
    /\ pc = "done"
    /\ Len(prev) = 2
    /\ prev[1].input = input[1]
    /\ prev[2].input # input[1]
    /\ prev[2].error # None
    /\ Len(result[1]) >= 2
    /\ ~IsFlat(result[1])

\* C21: a line whose stripped length exceeds 30 is neither a volume title
\* nor a chapter title, a line whose stripped length exceeds 50 is not
\* excluded, and a line that starts with white space is none of the three,
\* whatever it matches; a line of exactly 30 (50) characters that does not
\* start with white space and matches a pattern is a title (is excluded).
C21_ShapeRules ==
    pc = "shaped" =>
        LET line == arg[1]
            n == StrLen(Strip(line))
            blank == line # <<>> /\ Head(line) \in {"sp", "tab", "nl"}
            Hits(ps) == \E i \in 1..Len(ps) : Search(ps[i], line)
        IN /\ n > 30 => ~ret[1].volume /\ ~ret[1].chapter
           /\ n > 50 => ~ret[1].exclude
           /\ blank => ~ret[1].exclude /\ ~ret[1].volume /\ ~ret[1].chapter
           /\ (n = 30 /\ ~blank /\ Hits(config.volume_patterns)) => ret[1].volume
           /\ (n = 30 /\ ~blank /\ Hits(config.chapter_patterns)) => ret[1].chapter
           /\ (n = 50 /\ ~blank /\ Hits(config.exclude_patterns)) => ret[1].exclude

\* a line of exactly 30 characters with blanks behind it is a volume title
C21_Witness ==
    /\ pc = "shaped"
    /\ StrLen(Strip(arg[1])) = 30
    /\ Len(Strip(arg[1])) < Len(arg[1])
    /\ ret[1].volume

\* lines of 31 and of 51 characters and a line behind a tabulator match
\* patterns and are refused
C21_WitnessRefused ==
    /\ pc = "shaped"
    /\ supplied # <<>>
    /\ \/ StrLen(Strip(arg[1])) = 51 /\ "Ex" \in Range(arg[1])
       \/ StrLen(Strip(arg[1])) = 31 /\ "Ch" \in Range(arg[1])
       \/ arg[1] # <<>> /\ Head(arg[1]) = "tab" /\ "Vol" \in Range(arg[1])
    /\ ~ret[1].exclude /\ ~ret[1].volume /\ ~ret[1].chapter

\* the loop of _split_chapters has ended
LoopEnded ==
    \/ pc \in {"build", "done"}
    \/ pc = "failed" /\ error[1].msg = "no_chapters_found"

\* the lines behind the pending title line
LastBody == SubSeq(lines, title_line + 1, Len(lines))

\* C22: when the input ends while a title is pending, the pending segment
\* is emitted if and only if its joined, stripped body is not empty, at
\* most once, as the last segment, with that body and the pending title.
C22_TerminalFlush ==
    (LoopEnded /\ current_title # None) =>
        LET emitted == {i \in 1..Len(chapters) : chapters[i].src = title_line}
        IN /\ Cardinality(emitted) <= 1
           /\ emitted # {} <=> Strip(JoinLines(LastBody)) # <<>>
           /\ \A i \in emitted :
                /\ i = Len(chapters)
                /\ chapters[i].title = current_title[1]
                /\ chapters[i].content = Strip(JoinLines(LastBody))
                /\ chapters[i].type = detect_content_type(config, current_title[1])

\* the input ended behind the body of a second titled segment
C22_Witness ==
    /\ pc = "done"
    /\ current_title # None
    /\ Len(chapters) >= 2
    /\ chapters[Len(chapters)].src = title_line
    /\ title_line < Len(lines)

\* the input ended on a title line, or on blank lines behind one, after an
\* emitted segment: nothing is emitted for the last title
C22_WitnessEmptyBody ==
    /\ pc = "done"
    /\ current_title # None
    /\ chapters[Len(chapters)].src < title_line

\* C23: when a title line arrives while a title is pending, the pending
\* segment is emitted if and only if its lines joined and stripped are not
\* empty, with that body, the pending title and the type classified from
\* that title; with an empty body nothing is emitted for the pending title.
C23_TitleStep ==
    (/\ pc = "split" /\ pc' = "split"
     /\ Len(lines') = Len(lines) + 1
     /\ IsTitleLine(config, lines'[Len(lines')])
     /\ current_title # None)
    => LET body == Strip(JoinLines(SubSeq(lines, title_line + 1, Len(lines))))
       IN IF body # <<>>
          THEN /\ Len(chapters') = Len(chapters) + 1
               /\ SubSeq(chapters', 1, Len(chapters)) = chapters
               /\ chapters'[Len(chapters')].title = current_title[1]
               /\ chapters'[Len(chapters')].content = body
               /\ chapters'[Len(chapters')].type
                     = detect_content_type(config, current_title[1])
               /\ chapters'[Len(chapters')].src = title_line
          ELSE chapters' = chapters

C23_PendingSegmentClosed == [][C23_TitleStep]_vars

\* a segment with a body was emitted, and of two title lines that follow
\* each other the first left no segment
C23_Witness ==
    /\ pc = "split"
    /\ Len(lines) = 4
    /\ title_line = 4
    /\ IsTitleLine(config, lines[3])
    /\ clean_title(config, Strip(lines[3])) # <<>>
    /\ Len(chapters) = 1
    /\ chapters[1].src = 1

\* C24: the text returned is the decode by the detected encoding when its
\* confidence is above 0.7 and it decodes; otherwise the decode by the first
\* of utf-8, gbk, gb2312, big5, utf-16 that decodes; the decode with
\* replacement only when none of these decodes.
C24_EncodingPrecedence ==
    pc = "returned" =>
        LET f == arg[1]
            Sig(enc) == IF f.bom /\ enc = "utf-8" THEN "utf-8-sig" ELSE enc
            Ok(enc) == IF Sig(enc) = "utf-8-sig" THEN "utf-8" \in f.decodes
                       ELSE enc \in f.decodes
            order == << "utf-8", "gbk", "gb2312", "big5", "utf-16" >>
        IN IF f.encoding # None /\ f.confidence > 7 /\ Ok(f.encoding[1])
           THEN ret[1] = [codec |-> Sig(f.encoding[1]), lossy |-> FALSE]
           ELSE IF \E i \in 1..5 : Ok(order[i])
                THEN \E i \in 1..5 :
                         /\ Ok(order[i])
                         /\ \A j \in 1..(i - 1) : ~Ok(order[j])
                         /\ ret[1] = [codec |-> Sig(order[i]), lossy |-> FALSE]
                ELSE ret[1] = [codec |-> "utf-8", lossy |-> TRUE]

\* an encoding outside the fallback list was detected with a confidence of
\* exactly 0.7 and decodes, utf-8 does not: the gbk decode is returned
C24_Witness ==
    /\ pc = "returned"
    /\ arg[1].encoding = Some("other")
    /\ arg[1].confidence = MinConfidence
    /\ "other" \in arg[1].decodes
    /\ tried = << "utf-8" >>
    /\ ret = Some(Text("gbk", FALSE))

\* C25: no step, the construction of a Parser and the steps of parse
\* included, changes the configuration of a Parser that exists, its own
\* included; every Parser has the defaults overridden by what it was
\* constructed with, so a Parser() has the defaults.
C25_ConfigStep ==
    \A p \in 1..Len(parsers) :
        /\ p <= Len(parsers')
        /\ heap'[parsers'[p].ref] = heap[parsers[p].ref]

C25_EffectiveConfig ==
    /\ \A p \in 1..Len(parsers) :
         heap[parsers[p].ref] = Update(get_default_config, parsers[p].supplied)
    /\ pc \notin {"idle"} =>
         \E p \in 1..Len(parsers) : parsers[p].parsed /\ config = heap[parsers[p].ref]

C25_ConfigIsolation == [][C25_ConfigStep]_vars /\ []C25_EffectiveConfig

\* a Parser with a partial configuration was constructed and has parsed,
\* and a Parser() constructed after it has parsed too
C25_Witness ==
    /\ pc = "done"
    /\ Len(parsers) = 2
    /\ parsers[1].supplied # <<>>
    /\ parsers[2].supplied = <<>>
    /\ parsers[1].parsed
    /\ parsers[2].parsed
    /\ config = get_default_config

\* the segment that a Chapter was built from
SegmentOf(c) == chapters[CHOOSE k \in 1..Len(chapters) : chapters[k].src = c.src]

\* C26: every Volume of a returned list has a Chapter: the flat container
\* is not empty, a genuine volume starts with the Chapter built from its
\* own title segment, and a standalone special Volume has exactly one
\* Chapter.
C26_NoEmptyVolume ==
    result # None =>
        \A v \in 1..Len(result[1]) :
            LET vol == result[1][v]
            IN /\ Len(vol.chapters) >= 1
               /\ vol.title = None => Len(result[1]) = 1
               /\ vol.title # None =>
                    LET first == vol.chapters[1]
                    IN /\ first.title = vol.title[1]
                       /\ first.content = SegmentOf(first).content
                       /\ IF SegmentOf(first).is_volume
                          THEN first.content_type = "chapter"
                          ELSE /\ Len(vol.chapters) = 1
                               /\ first.content_type \in {"extra", "postscript", "notice"}

\* a returned list with a genuine volume and a standalone special Volume
C26_Witness ==
    /\ pc = "done"
    /\ ~IsFlat(result[1])
    /\ \E v, w \in 1..Len(result[1]) :
         /\ SegmentOf(result[1][v].chapters[1]).is_volume
         /\ ~SegmentOf(result[1][w].chapters[1]).is_volume

\* C27: no line is emitted twice: the emitted segments are in the order of
\* their title lines, and the content of each is made of lines behind its
\* title line and in front of the title line of the next emitted segment,
\* also when a title line with an empty cleaned title closed a segment and
\* left the buffer as it was.
C27_NoLineTwice ==
    \A i \in 1..Len(chapters) :
        LET s == chapters[i].src
            hi == IF i < Len(chapters) THEN chapters[i + 1].src - 1 ELSE Len(lines)
        IN /\ 1 <= s
           /\ s <= hi
           /\ \E e \in s..hi :
                chapters[i].content = Strip(JoinLines(SubSeq(lines, s + 1, e)))

\* a segment was emitted by a title line with an empty cleaned title, more
\* lines followed, and parse returned
C27_Witness ==
    /\ pc = "done"
    /\ \E k \in 1..(Len(lines) - 1) :
         /\ IsTitleLine(config, lines[k])
         /\ clean_title(config, Strip(lines[k])) = <<>>
         /\ \E i \in 1..Len(chapters) :
              /\ chapters[i].src < k
              /\ chapters[i].content = Strip(JoinLines(SubSeq(lines, chapters[i].src + 1, k - 1)))

\* the title lines with a cleaned title that is not empty
TitleLines ==
    {k \in 1..Len(lines) :
        IsTitleLine(config, lines[k]) /\ clean_title(config, Strip(lines[k])) # <<>>}

\* C28: the lines in front of the first title line with a non-empty
\* cleaned title go to the buffer and are in no Chapter: while there is no
\* such title line the buffer holds every line and nothing is emitted or
\* returned; every Chapter returned starts at such a title line and its
\* content is made of lines behind that line.
C28_PrefaceDiscarded ==
    /\ TitleLines = {} =>
         /\ chapters = <<>>
         /\ result = None
         /\ pc = "split" => current_content = lines
    /\ result # None =>
         \A v \in 1..Len(result[1]) : \A j \in 1..Len(result[1][v].chapters) :
            LET c == result[1][v].chapters[j]
            IN /\ c.src \in TitleLines
               /\ \E e \in c.src..Len(lines) :
                    c.content = Strip(JoinLines(SubSeq(lines, c.src + 1, e)))

\* parse returned for an input that starts with a line of text
C28_Witness ==
    /\ pc = "done"
    /\ lines[1] = <<"x">>
    /\ \A v \in 1..Len(result[1]) : \A j \in 1..Len(result[1][v].chapters) :
         result[1][v].chapters[j].src >= 2

\* C29 as stated: in nested mode the walk lists the kept segments in the
\* order of the manuscript.
C29_WalkInManuscriptOrder ==
    (result # None /\ ~IsFlat(result[1])) =>
        LET w == Walk(result[1])
        IN \A p, q \in 1..Len(w) : p < q => w[p].src < w[q].src

\* C29 amended: in nested mode the walk lists the kept segments in the
\* order of the manuscript except that an ordinary chapter that follows a
\* standalone special segment is listed in front of it, among the chapters
\* of the genuine volume that was open: two walked chapters are out of
\* manuscript order exactly when the earlier in the manuscript is a
\* standalone special segment and the later an ordinary chapter with the
\* same last volume segment in front of both.
C29_WalkOrderUpToSpecials ==
    (result # None /\ ~IsFlat(result[1])) =>
        LET w == Walk(result[1])
        IN \A p, q \in 1..Len(w) :
              (w[p].src < w[q].src) =>
                 (q < p <=> (/\ ~SegmentOf(w[p]).is_volume
                             /\ IsSpecial(SegmentOf(w[p]))
                             /\ IsOrdinary(SegmentOf(w[q]))
                             /\ LastVolumeBefore(w[q].src) = LastVolumeBefore(w[p].src)))

\* a volume, a postscript and a chapter in this order in the manuscript are
\* walked as volume, chapter, postscript
C29_Witness ==
    /\ pc = "done"
    /\ ~IsFlat(result[1])
    /\ LET w == Walk(result[1])
       IN /\ Len(w) = 3
          /\ w[1].src = 1 /\ w[2].src = 3 /\ w[3].src = 2
          /\ w[3].content_type = "postscript"

\* C30: generate_epub starts its steps in the order parse, process, check,
\* write; the writer is looked for only when every chapter is processed;
\* when a step raises no later step is started, in particular nothing is
\* written after a failure of parse, and the caller gets an
\* EpubGenerationError whose cause is the exception that was raised.
C30_StepsInOrder ==
    LET order == << "parse", "process", "check", "write" >>
        last == gen.steps[Len(gen.steps)]
    IN /\ Len(gen.steps) \in 1..4
       /\ gen.steps = SubSeq(order, 1, Len(gen.steps))
       /\ Len(gen.steps) >= 2 => result # None
       /\ Len(gen.steps) >= 3 =>
            /\ gen.processed = Len(Walk(result[1]))
            /\ \A i \in 1..Len(Walk(result[1])) :
                 Walk(result[1])[i].content # <<>> /\ Head(Walk(result[1])[i].content) = "<p>"
       /\ gen.written => gen.steps = order /\ gen.writer /\ pc = "gen_done"
       /\ pc = "gen_done" => gen.written
       /\ pc = "gen_failed" =>
            /\ ~gen.written
            /\ error[1].type = "EpubGenerationError"
            /\ error[1].cause # None
            /\ LET cause == error[1].cause[1]
               IN CASE last = "parse" -> cause.type = "FileParseError"
                    [] last = "check" -> cause.type = "EpubGenerationError" /\ ~gen.writer
                    [] last = "write" -> cause.type = "OSError"
                    [] OTHER -> FALSE

C30_Finished == pc \notin {"gen_failed", "gen_done"}

C30_GenerateOrder == [][C30_Finished]_vars /\ []C30_StepsInOrder

\* parse failed on a file without a heading although a writer is there:
\* no other step was started
C30_Witness ==
    /\ pc = "gen_failed"
    /\ gen.writer
    /\ gen.steps = << "parse" >>
    /\ error[1].cause[1].msg = "no_chapters_found"

\* all four steps ran for a file with three chapters
C30_WitnessWritten ==
    /\ pc = "gen_done"
    /\ gen.processed = 3

====
